---- MODULE Spec2Model ----
(***************************************************************************)
(* Model of the record-and-ledger core of src/human_resources.py           *)
(* (class EnhancedERP): the sqlite store behind one connection, the        *)
(* session (current_user, user_permissions) and the handlers that write    *)
(* to the store: create_tables, do_login, logout, on_closing,              *)
(* save_customer, delete_customer, update_order_status, and the two        *)
(* queries that fill the screen: load_dashboard_data and load_customers.   *)
(*                                                                         *)
(* The connection runs in sqlite3's default transaction mode: a write      *)
(* statement opens a transaction that stays open until conn.commit().      *)
(* No handler ever calls conn.rollback().  "db" is what the connection     *)
(* sees (committed rows plus the open transaction), "committed" is what    *)
(* is in the file.                                                         *)
(*                                                                         *)
(* NULL / None is 0 for ids and timestamps, and the record None for        *)
(* current_user.  Of the widgets the model keeps what the dashboard and    *)
(* the customers tree show and the entries that parametrise them; the      *)
(* message a handler shows is recorded in "last".  A date is a day number. *)
(* A timestamp t >= 1 is a reading of the clock, an instant of the day     *)
(* Today; a timestamp t <= 0 was written before the run and is an instant  *)
(* of the day Today - 1 + t (0 is yesterday).                              *)
(*                                                                         *)
(* The file as written does not reach its event loop.  The compiler        *)
(* rejects line 388 (an unmatched ")"); with that character dropped,       *)
(* __init__ runs create_tables and then raises AttributeError in           *)
(* create_menu (line 296), which names self.show_dashboard and nine more   *)
(* show_* methods that the class does not define.  StartAsWritten and      *)
(* Start are these two runs of __main__.  Every other definition models    *)
(* the file with the ")" of line 388 dropped, and the handlers are         *)
(* modelled as the methods of an EnhancedERP object whose window has been  *)
(* built the way __init__ is written to build it (Constructed): a state    *)
(* that no run of __main__ delivers.                                       *)
(*                                                                         *)
(* Spec runs every handler and event of the window, and SpecHeld runs      *)
(* them on a store with two customers; SpecDashboard and                   *)
(* SpecCustomers run the two queries on stores and entries drawn from      *)
(* bounded sets; SpecBootstrap runs __main__ and the session handlers on   *)
(* new and on used files; SpecDialogs runs the order-details windows and   *)
(* their status buttons.                                                   *)
(***************************************************************************)
EXTENDS Integers, Sequences, FiniteSets, Bags, TLC

\* ------------------------------------------------------------------ bounds
\* highest customer id the store hands out (AUTOINCREMENT is unbounded)
MaxCustomerId == 2
\* most activity of a run explored: the entries of the audit log, the handler
\* runs whose writes are in the open transaction, the order-details windows
\* that are open and the entries (search, dates) that differ from what the
\* window starts with
MaxActivity == 2
\* the clock saturates here (datetime.now() is unbounded)
MaxTime == 1
\* most products in a generated products table
MaxProducts == 11
\* longest products table generated with every mix of product kinds
MaxMixedProducts == 2
\* most customers in a generated customers table
MaxListedCustomers == 2
\* most order-details windows open at a time
MaxDialogs == 2
\* longest audit log explored when orders are changed through those windows
MaxDialogAudit == 3

\* LIMIT 10 of the stock alerts query
LowStockLimit == 10

\* ------------------------------------------------------------ input sets
Usernames == {"", "admin", "bob", "eve"}
Passwords == {"", "admin123", "bobpw", "evepw"}
Codes == {"", "C001", "C002"}
Names == {"", "Acme"}
CustomerStatuses == {"Active", "Inactive", "On Hold"}
FormStatuses == {"", "Active", "Bogus"}
OrderStatuses == {"Draft", "Confirmed", "Shipped", "Completed"}
\* the statuses update_order_status is called with: the two the order dialog
\* passes, and Draft as a status no button passes
NewStatuses == {"Draft", "Shipped", "Completed"}
OrderIds == {1}
\* the dates of the dashboard's date entries, and the order totals, explored
DashDays == 1..4
Amounts == {-100, 0, 100, 150}
\* what is typed into the customers tab's search entry, and its status filter
SearchTerms == {"", "ac", "ME", "zz", "%", "_"}
StatusFilters == {"All", "Active", "Inactive", "On Hold"}

\* ------------------------------------------------------------- the session
None == [id |-> 0, username |-> "", name |-> "", role |-> ""]
NoPermissions == [m \in {} |-> [view |-> FALSE, create |-> FALSE, edit |-> FALSE, delete |-> FALSE]]

\* hashlib.sha256(password.encode()).hexdigest(), tabulated on Passwords
hash_password(password) ==
  CASE password = "admin123" -> "240be518fabd2724ddb6f04eeb1da5967448d7e831c08c8fa822809f74c720a9"
    [] password = "bobpw" -> "e8f318657ce39ec4edeecbbee28fd72dea2261d8a6b2155ce4977393e0ea721b"
    [] password = "evepw" -> "35ec912cf3624655f0933c43dfd1881a8abeaf80eeeec7326edd27c1d022ab99"
    [] password = "" -> "e3b0c44298fc1c149afbf4c8996fb92427ae41e4649b934ca495991b7852b855"
    [] OTHER -> "sha256:" \o password

\* --------------------------------------------------------------- the store
\* users, permissions, inventory_movements and audit_log are never deleted
\* from: a row's id is its index.  customers rows can be deleted: a function
\* from id, with customers_seq the AUTOINCREMENT counter.
AdminRow == [username |-> "admin", password |-> hash_password("admin123"),
             name |-> "Administrator", role |-> "Admin", is_active |-> 1, last_login |-> 0]
AdminPermission == [user_id |-> 1, module |-> "all",
                    can_view |-> 1, can_create |-> 1, can_edit |-> 1, can_delete |-> 1]

\* a bootstrap that inserts the admin and its permission row on every run
create_tables_again(s) ==
  [s EXCEPT !.users = Append(@, AdminRow),
            !.permissions = Append(@, AdminPermission)]

\* create_tables: CREATE TABLE IF NOT EXISTS leaves existing rows alone; the
\* admin user and its permission row are inserted when no user is named admin
create_tables(s) ==
  IF Cardinality({i \in DOMAIN s.users : s.users[i].username = "admin"}) = 0
  THEN [s EXCEPT !.users = Append(@, AdminRow),
                 !.permissions = Append(@, AdminPermission)]
  ELSE s

\* the rows the store holds before the program first runs that the program
\* itself cannot create (no handler inserts products, orders or movements)
BaseStore ==
  [users |-> <<>>,
   permissions |-> <<>>,
   customers |-> (1 :> [code |-> "C001", name |-> "Acme", contact_person |-> "", email |-> "",
                        status |-> "Active",
                        created_by |-> 0, created_at |-> 0, updated_at |-> 0]),
   customers_seq |-> 1,
   products |-> <<[current_stock |-> 10, min_stock_level |-> 3, status |-> "Active"],
                  [current_stock |-> 5, min_stock_level |-> 5, status |-> "Active"]>>,
   sales_orders |-> <<[customer_id |-> 1, order_date |-> 0, total_amount |-> 150,
                       status |-> "Draft", updated_at |-> 0],
                      [customer_id |-> 1, order_date |-> -40, total_amount |-> 100,
                       status |-> "Shipped", updated_at |-> 0]>>,
   sales_order_items |-> <<[order_id |-> 1, product_id |-> 1, quantity |-> 2],
                           [order_id |-> 1, product_id |-> 2, quantity |-> 1],
                           [order_id |-> 2, product_id |-> 1, quantity |-> 1]>>,
   inventory_movements |-> <<[product_id |-> 1, movement_type |-> "Purchase", quantity |-> 11, reference_id |-> 0],
                             [product_id |-> 2, movement_type |-> "Purchase", quantity |-> 5, reference_id |-> 0],
                             [product_id |-> 1, movement_type |-> "Sale", quantity |-> -1, reference_id |-> 2]>>,
   audit_log |-> <<>>]

\* a store that already has users: the admin, an active user with a single
\* view-only permission row, and a deactivated user
UsedStore ==
  [BaseStore EXCEPT
     !.users = <<AdminRow,
                 [username |-> "bob", password |-> hash_password("bobpw"),
                  name |-> "Bob", role |-> "Sales", is_active |-> 1, last_login |-> 0],
                 [username |-> "eve", password |-> hash_password("evepw"),
                  name |-> "Eve", role |-> "Sales", is_active |-> 0, last_login |-> 0]>>,
     !.permissions = <<AdminPermission,
                       [user_id |-> 2, module |-> "customers",
                        can_view |-> 1, can_create |-> 0, can_edit |-> 0, can_delete |-> 0]>>]

InitStores == {UsedStore}

\* a store with a second customer and no customer an order may be created
\* for: customer 1, who placed the orders, has been put On Hold, and customer
\* 2, who has no orders, is Inactive
HeldStore ==
  [UsedStore EXCEPT
     !.customers = (1 :> [UsedStore.customers[1] EXCEPT !.status = "On Hold"])
                   @@ (2 :> [code |-> "C002", name |-> "Zoe", contact_person |-> "", email |-> "",
                             status |-> "Inactive",
                             created_by |-> 0, created_at |-> 0, updated_at |-> 0]),
     !.customers_seq = 2]

VARIABLES db, committed, pending, current_user, user_permissions, login_dialog, running, clock, last,
          dashboard, dash_dates, customers_tree, customer_filter, order_dialogs

vars == <<db, committed, pending, current_user, user_permissions, login_dialog, running, clock, last,
          dashboard, dash_dates, customers_tree, customer_filter, order_dialogs>>

\* what the screen shows and the entries that parametrise it; order_dialogs
\* is the bag of the order-details windows that are open, each with the order
\* id and the status it read when it was opened
screen == <<dashboard, dash_dates, customers_tree, customer_filter, order_dialogs>>

\* SUM() over the rows of a result
RECURSIVE SumSeq(_)
SumSeq(q) == IF q = <<>> THEN 0 ELSE Head(q) + SumSeq(Tail(q))

\* datetime.now(): the next reading of the clock
Tick(c) == IF c < MaxTime THEN c + 1 ELSE c

\* what the last handler reported
Report(op, outcome) == [op |-> op, outcome |-> outcome]

\* a recorder that writes its row twice
insert_audit_log_twice(s, user_id, action, table_name, record_id, now) ==
  LET e == [user_id |-> user_id, action |-> action, table_name |-> table_name,
            record_id |-> record_id, created_at |-> now]
  IN [s EXCEPT !.audit_log = Append(Append(@, e), e)]

\* INSERT INTO audit_log (user_id, action, table_name, record_id, created_at)
insert_audit_log(s, user_id, action, table_name, record_id, now) ==
  [s EXCEPT !.audit_log = Append(@, [user_id |-> user_id, action |-> action,
                                     table_name |-> table_name, record_id |-> record_id,
                                     created_at |-> now])]


\* ------------------------------------------------------- customer ledger
\* save_customer, "Validate required fields": one message per empty field
validate_customer(form) ==
  (IF form.code = "" THEN <<"Customer code is required">> ELSE <<>>)
  \o (IF form.name = "" THEN <<"Customer name is required">> ELSE <<>>)
  \o (IF form.status = "" THEN <<"Status is required">> ELSE <<>>)

\* str(e) of the sqlite3.IntegrityError a rejected customers row raises: the
\* CHECK of the row is tested before the UNIQUE index is written
integrity_error(s, id, code, status) ==
  IF status \notin CustomerStatuses
  THEN "CHECK constraint failed: status IN ('Active', 'Inactive', 'On Hold')"
  ELSE IF \E other \in DOMAIN s.customers \ {id} : s.customers[other].code = code
  THEN "UNIQUE constraint failed: customers.code"
  ELSE "FOREIGN KEY constraint failed"

\* a table whose code column is not UNIQUE
customer_row_accepted_any_code(s, id, code, status, created_by) ==
  /\ status \in CustomerStatuses
  /\ created_by = 0 \/ created_by \in DOMAIN s.users

\* the constraints of table customers a written row must meet:
\* code UNIQUE, CHECK(status IN ...), created_by REFERENCES users(id)
customer_row_accepted(s, id, code, status, created_by) ==
  /\ \A other \in DOMAIN s.customers \ {id} : s.customers[other].code # code
  /\ status \in CustomerStatuses
  /\ created_by = 0 \/ created_by \in DOMAIN s.users

\* INSERT INTO customers (...): ok is FALSE when sqlite raises IntegrityError
insert_customer_row(s, form, created_by, now) ==
  LET id == s.customers_seq + 1 IN
  IF customer_row_accepted(s, 0, form.code, form.status, created_by)
  THEN [ok |-> TRUE, lastrowid |-> id,
        db |-> [s EXCEPT !.customers = @ @@ (id :> [code |-> form.code, name |-> form.name,
                                                   contact_person |-> "", email |-> "",
                                                   status |-> form.status, created_by |-> created_by,
                                                   created_at |-> now, updated_at |-> now]),
                         !.customers_seq = id]]
  ELSE [ok |-> FALSE, lastrowid |-> 0, db |-> s]

\* an update that stamps created_at as well
update_customer_row_restamping(s, customer_id, form, now) ==
  IF customer_id \notin DOMAIN s.customers THEN [ok |-> TRUE, db |-> s]
  ELSE IF customer_row_accepted(s, customer_id, form.code, form.status, 0)
  THEN [ok |-> TRUE,
        db |-> [s EXCEPT !.customers[customer_id].code = form.code,
                         !.customers[customer_id].name = form.name,
                         !.customers[customer_id].status = form.status,
                         !.customers[customer_id].created_at = now,
                         !.customers[customer_id].updated_at = now]]
  ELSE [ok |-> FALSE, db |-> s]

\* UPDATE customers SET code=?, name=?, ..., status=?, updated_at=? WHERE id=?
\* (a WHERE that matches no row updates nothing and raises nothing)
update_customer_row(s, customer_id, form, now) ==
  IF customer_id \notin DOMAIN s.customers THEN [ok |-> TRUE, db |-> s]
  ELSE IF customer_row_accepted(s, customer_id, form.code, form.status, 0)
  THEN [ok |-> TRUE,
        db |-> [s EXCEPT !.customers[customer_id].code = form.code,
                         !.customers[customer_id].name = form.name,
                         !.customers[customer_id].status = form.status,
                         !.customers[customer_id].updated_at = now]]
  ELSE [ok |-> FALSE, db |-> s]

\* a save that records its entry, with no actor, when nobody is logged in
save_customer_unattributed(s, cu, customer_id, form, now) ==
  LET errors == validate_customer(form) IN
  IF errors # <<>>
  THEN [db |-> s, commit |-> FALSE, outcome |-> "Validation Error", errors |-> errors,
        message |-> ""]
  ELSE
    LET created_by == IF cu # None THEN cu.id ELSE 0
        w == IF customer_id # 0
             THEN update_customer_row(s, customer_id, form, now)
             ELSE insert_customer_row(s, form, created_by, now)
        record_id == IF customer_id # 0 THEN customer_id ELSE w.lastrowid
        action == IF customer_id # 0 THEN "update" ELSE "create"
    IN IF ~w.ok
       THEN [db |-> s, commit |-> FALSE, outcome |-> "Error", errors |-> <<>>,
             message |-> integrity_error(s, customer_id, form.code, form.status)]
       ELSE [db |-> insert_audit_log(w.db, cu.id, action, "customers", record_id, now),
             commit |-> TRUE, outcome |-> "Success", errors |-> <<>>,
             message |-> "Customer saved successfully"]

\* save_customer(customer_id, dialog): db is the connection's view afterwards,
\* commit says whether conn.commit() was reached
save_customer(s, cu, customer_id, form, now) ==
  LET errors == validate_customer(form) IN
  IF errors # <<>>
  THEN [db |-> s, commit |-> FALSE, outcome |-> "Validation Error", errors |-> errors,
        message |-> ""]
  ELSE
    LET created_by == IF cu # None THEN cu.id ELSE 0
        w == IF customer_id # 0
             THEN update_customer_row(s, customer_id, form, now)
             ELSE insert_customer_row(s, form, created_by, now)
        record_id == IF customer_id # 0 THEN customer_id ELSE w.lastrowid
        action == IF customer_id # 0 THEN "update" ELSE "create"
    IN IF ~w.ok
       THEN [db |-> s, commit |-> FALSE, outcome |-> "Error", errors |-> <<>>,
             message |-> integrity_error(s, customer_id, form.code, form.status)]
       ELSE IF cu = None   \* self.current_user[0] raises TypeError
       THEN [db |-> w.db, commit |-> FALSE, outcome |-> "Error", errors |-> <<>>,
             message |-> "'NoneType' object is not subscriptable"]
       ELSE [db |-> insert_audit_log(w.db, cu.id, action, "customers", record_id, now),
             commit |-> TRUE, outcome |-> "Success", errors |-> <<>>,
             message |-> "Customer saved successfully"]

\* a count that finds no order
order_count_none(s, customer_id) == 0

\* SELECT COUNT(*) FROM sales_orders WHERE customer_id=?
order_count(s, customer_id) ==
  Cardinality({o \in DOMAIN s.sales_orders : s.sales_orders[o].customer_id = customer_id})

\* a delete that also clears the customer's entries from the audit log
delete_customer_purging(s, cu, customer_id, confirm, now) ==
  IF customer_id = 0
  THEN [db |-> s, commit |-> FALSE, outcome |-> "Please select a customer first"]
  ELSE IF ~confirm
  THEN [db |-> s, commit |-> FALSE, outcome |-> "Declined"]
  ELSE IF order_count(s, customer_id) > 0
  THEN [db |-> s, commit |-> FALSE, outcome |-> "Cannot delete customer with existing orders"]
  ELSE
    LET d == [s EXCEPT !.customers = [id \in DOMAIN @ \ {customer_id} |-> @[id]],
                       !.audit_log = SelectSeq(@, LAMBDA e : ~(e.table_name = "customers"
                                                              /\ e.record_id = customer_id))] IN
    IF cu = None
    THEN [db |-> d, commit |-> FALSE, outcome |-> "Error"]
    ELSE [db |-> insert_audit_log(d, cu.id, "delete", "customers", customer_id, now),
          commit |-> TRUE, outcome |-> "Success"]

\* delete_customer: customer_id is the id in the row of the customers tree
\* that has the focus, 0 when no row has it (the handler then warns and
\* returns before it asks for confirmation)
delete_customer(s, cu, customer_id, confirm, now) ==
  IF customer_id = 0
  THEN [db |-> s, commit |-> FALSE, outcome |-> "Please select a customer first"]
  ELSE IF ~confirm
  THEN [db |-> s, commit |-> FALSE, outcome |-> "Declined"]
  ELSE IF order_count(s, customer_id) > 0
  THEN [db |-> s, commit |-> FALSE, outcome |-> "Cannot delete customer with existing orders"]
  ELSE
    LET d == [s EXCEPT !.customers = [id \in DOMAIN @ \ {customer_id} |-> @[id]]] IN
    IF cu = None   \* self.current_user[0] raises TypeError
    THEN [db |-> d, commit |-> FALSE, outcome |-> "Error"]
    ELSE [db |-> insert_audit_log(d, cu.id, "delete", "customers", customer_id, now),
          commit |-> TRUE, outcome |-> "Success"]

\* ------------------------------------------------ order & inventory engine
\* a status update that also lowers the stock of the order's products, and
\* records no movement
update_order_status_stock(s, cu, order_id, new_status, now) ==
  LET u == IF order_id \in DOMAIN s.sales_orders
           THEN [s EXCEPT !.sales_orders[order_id].status = new_status,
                          !.sales_orders[order_id].updated_at = now,
                          !.products = [p \in DOMAIN @ |->
                             [@[p] EXCEPT !.current_stock = @ -
                                (IF \E i \in DOMAIN s.sales_order_items :
                                      /\ s.sales_order_items[i].order_id = order_id
                                      /\ s.sales_order_items[i].product_id = p
                                 THEN 1 ELSE 0)]]]
           ELSE s
  IN IF cu = None
     THEN [db |-> u, commit |-> FALSE, outcome |-> "Error"]
     ELSE [db |-> insert_audit_log(u, cu.id, "update", "sales_orders", order_id, now),
           commit |-> TRUE, outcome |-> "Success"]

\* update_order_status(order_id, new_status)
update_order_status(s, cu, order_id, new_status, now) ==
  LET u == IF order_id \in DOMAIN s.sales_orders
           THEN [s EXCEPT !.sales_orders[order_id].status = new_status,
                          !.sales_orders[order_id].updated_at = now]
           ELSE s
  IN IF cu = None   \* self.current_user[0] raises TypeError
     THEN [db |-> u, commit |-> FALSE, outcome |-> "Error"]
     ELSE [db |-> insert_audit_log(u, cu.id, "update", "sales_orders", order_id, now),
           commit |-> TRUE, outcome |-> "Success"]

\* ------------------------------------------------- session and permissions
\* SELECT ... FROM users WHERE username=? AND password=? AND is_active=1
matching_users(s, username, password) ==
  {i \in DOMAIN s.users : /\ s.users[i].username = username
                          /\ s.users[i].password = hash_password(password)
                          /\ s.users[i].is_active = 1}

\* a dict built from the permission rows of every user
load_permissions_any_user(s, user_id) ==
  LET rows == DOMAIN s.permissions
      modules == {s.permissions[i].module : i \in rows}
      lastrow(m) == CHOOSE i \in rows : /\ s.permissions[i].module = m
                                         /\ \A j \in rows : s.permissions[j].module = m => j <= i
  IN [m \in modules |-> [view |-> s.permissions[lastrow(m)].can_view # 0,
                         create |-> s.permissions[lastrow(m)].can_create # 0,
                         edit |-> s.permissions[lastrow(m)].can_edit # 0,
                         delete |-> s.permissions[lastrow(m)].can_delete # 0]]

\* the dict built from the rows of permissions WHERE user_id=?: a later row
\* of the same module replaces an earlier one
load_permissions(s, user_id) ==
  LET rows == {i \in DOMAIN s.permissions : s.permissions[i].user_id = user_id}
      modules == {s.permissions[i].module : i \in rows}
      lastrow(m) == CHOOSE i \in rows : /\ s.permissions[i].module = m
                                         /\ \A j \in rows : s.permissions[j].module = m => j <= i
  IN [m \in modules |-> [view |-> s.permissions[lastrow(m)].can_view # 0,
                         create |-> s.permissions[lastrow(m)].can_create # 0,
                         edit |-> s.permissions[lastrow(m)].can_edit # 0,
                         delete |-> s.permissions[lastrow(m)].can_delete # 0]]

\* do_login with the dialog's username and password.  When a row matches,
\* current_user and user_permissions are assigned and self.show_dashboard(),
\* which the class does not define, raises: the except clause shows "Login
\* failed", and the statements after the call (login_dialog.destroy(), the
\* UPDATE of last_login, the INSERT of the login entry, the commit) never run.
do_login(s, cu, perms, username, password, now) ==
  IF username = "" \/ password = ""
  THEN [db |-> s, commit |-> FALSE, outcome |-> "Please enter both username and password",
        current_user |-> cu, user_permissions |-> perms, login_dialog |-> TRUE]
  ELSE
    LET found == matching_users(s, username, password) IN
    IF found = {}
    THEN [db |-> s, commit |-> FALSE, outcome |-> "Invalid username or password",
          current_user |-> cu, user_permissions |-> perms, login_dialog |-> TRUE]
    ELSE
      LET id == CHOOSE i \in found : \A j \in found : i <= j
          user == [id |-> id, username |-> s.users[id].username,
                   name |-> s.users[id].name, role |-> s.users[id].role]
      IN [db |-> s, commit |-> FALSE,
          outcome |-> "Login failed: 'EnhancedERP' object has no attribute 'show_dashboard'",
          current_user |-> user, user_permissions |-> load_permissions(s, id),
          login_dialog |-> TRUE]

\* logout: the audit row is written and committed only for a logged-in user
logout(s, cu, perms, confirm, now) ==
  IF ~confirm
  THEN [db |-> s, commit |-> FALSE, outcome |-> "Declined",
        current_user |-> cu, user_permissions |-> perms, login_dialog |-> FALSE]
  ELSE [db |-> IF cu # None THEN insert_audit_log(s, cu.id, "logout", "users", cu.id, now) ELSE s,
        commit |-> cu # None, outcome |-> "Logged out",
        current_user |-> None, user_permissions |-> NoPermissions, login_dialog |-> TRUE]

\* on_closing: as logout, then conn.close() drops the open transaction
on_closing(s, cu, confirm, now) ==
  IF ~confirm
  THEN [db |-> s, commit |-> FALSE, outcome |-> "Declined", running |-> TRUE]
  ELSE [db |-> IF cu # None THEN insert_audit_log(s, cu.id, "logout", "users", cu.id, now) ELSE s,
        commit |-> cu # None, outcome |-> "Closed", running |-> FALSE]


\* --------------------------------------------------- dashboard aggregator
\* the dashboard's labels and stock alerts before the first load
NotLoaded == [loaded |-> FALSE, sales_total |-> 0, new_customers |-> 0, pending_orders |-> 0,
              growth |-> [num |-> 0, den |-> 1], low_stock |-> <<>>]

\* SELECT COALESCE(SUM(total_amount), 0) FROM sales_orders
\* WHERE order_date BETWEEN ? AND ?
period_total(s, first_day, last_day) ==
  SumSeq([o \in DOMAIN s.sales_orders |->
            IF /\ first_day <= s.sales_orders[o].order_date
               /\ s.sales_orders[o].order_date <= last_day
            THEN s.sales_orders[o].total_amount ELSE 0])

\* the day every reading of the clock falls on
Today == 0

\* the day of a timestamp: the 'YYYY-MM-DD' its text starts with
day_of(timestamp) == IF timestamp >= 1 THEN Today ELSE Today - 1 + timestamp

\* created_at BETWEEN ? AND ? compares the text 'YYYY-MM-DD HH:MM:SS' with the
\* two dates 'YYYY-MM-DD': a timestamp of the end day itself sorts after the
\* end date
created_between(created_at, first_day, last_day) ==
  first_day <= day_of(created_at) /\ day_of(created_at) < last_day

\* the greatest common divisor of two naturals
RECURSIVE gcd(_, _)
gcd(a, b) == IF b = 0 THEN a ELSE gcd(b, a % b)

\* n / d, d # 0: the number the float of the code approximates, as the
\* fraction in lowest terms with a positive denominator
quotient(n, d) ==
  LET g == gcd(IF n < 0 THEN -n ELSE n, IF d < 0 THEN -d ELSE d)
  IN IF d > 0 THEN [num |-> n \div g, den |-> d \div g]
     ELSE [num |-> (-n) \div g, den |-> (-d) \div g]

\* growth = ((sales_total - prev_sales) / prev_sales * 100) if prev_sales > 0
\* else 0: the value of the variable, in percent (the label renders it with
\* one decimal)
growth(sales_total, prev_sales) ==
  IF prev_sales > 0 THEN quotient((sales_total - prev_sales) * 100, prev_sales)
  ELSE quotient(0, 1)

\* the previous period: prev_start = start_date - (end_date - start_date).days,
\* up to start_date - 1 day
prev_period(start_date, end_date) ==
  <<start_date - (end_date - start_date), start_date - 1>>

\* the total of the orders of the previous period
prev_sales(s, start_date, end_date) ==
  period_total(s, prev_period(start_date, end_date)[1], prev_period(start_date, end_date)[2])

\* ORDER BY (min_stock_level - current_stock) DESC over the product ids P,
\* rows of equal deficit in rowid order
RECURSIVE by_deficit(_, _)
by_deficit(s, P) ==
  IF P = {} THEN <<>>
  ELSE LET deficit(p) == s.products[p].min_stock_level - s.products[p].current_stock
           p == CHOOSE a \in P : \A b \in P :
                  deficit(a) > deficit(b) \/ (deficit(a) = deficit(b) /\ a <= b)
       IN <<p>> \o by_deficit(s, P \ {p})

\* SELECT name, current_stock, min_stock_level FROM products
\* WHERE current_stock <= min_stock_level AND status = 'Active'
\* ORDER BY (min_stock_level - current_stock) DESC LIMIT 10
\* (a product's name is its row id here)
low_stock(s) ==
  LET sorted == by_deficit(s, {p \in DOMAIN s.products :
                                 /\ s.products[p].current_stock <= s.products[p].min_stock_level
                                 /\ s.products[p].status = "Active"})
      rows == [i \in DOMAIN sorted |->
                 [name |-> sorted[i], current_stock |-> s.products[sorted[i]].current_stock,
                  min_stock_level |-> s.products[sorted[i]].min_stock_level]]
  IN IF Len(rows) > LowStockLimit THEN SubSeq(rows, 1, LowStockLimit) ELSE rows

\* a load that notes in the audit log that the dashboard was viewed
load_dashboard_data_logging(s, start_date, end_date) ==
  [db |-> insert_audit_log(s, 0, "view", "dashboard", 0, 0),
   dashboard |-> [loaded |-> TRUE,
                  sales_total |-> period_total(s, start_date, end_date),
                  new_customers |-> Cardinality({c \in DOMAIN s.customers :
                       created_between(s.customers[c].created_at, start_date, end_date)}),
                  pending_orders |-> Cardinality({o \in DOMAIN s.sales_orders :
                       /\ s.sales_orders[o].status \in {"Draft", "Confirmed"}
                       /\ start_date <= s.sales_orders[o].order_date
                       /\ s.sales_orders[o].order_date <= end_date}),
                  growth |-> growth(period_total(s, start_date, end_date),
                                    prev_sales(s, start_date, end_date)),
                  low_stock |-> low_stock(s)]]

\* load_dashboard_data with the dates of the two date entries: db is the
\* connection's view afterwards, dashboard what the labels and the stock
\* alerts tree show (the tree is cleared before it is filled)
load_dashboard_data(s, start_date, end_date) ==
  [db |-> s,
   dashboard |-> [loaded |-> TRUE,
                  sales_total |-> period_total(s, start_date, end_date),
                  new_customers |-> Cardinality({c \in DOMAIN s.customers :
                       created_between(s.customers[c].created_at, start_date, end_date)}),
                  pending_orders |-> Cardinality({o \in DOMAIN s.sales_orders :
                       /\ s.sales_orders[o].status \in {"Draft", "Confirmed"}
                       /\ start_date <= s.sales_orders[o].order_date
                       /\ s.sales_orders[o].order_date <= end_date}),
                  growth |-> growth(period_total(s, start_date, end_date),
                                    prev_sales(s, start_date, end_date)),
                  low_stock |-> low_stock(s)]]

\* ---------------------------------------------------- customers tab query
\* the characters of the texts that occur in the stores and entries explored
chars(t) ==
  CASE t = "" -> <<>>
    [] t = "C001" -> <<"C", "0", "0", "1">>
    [] t = "C002" -> <<"C", "0", "0", "2">>
    [] t = "C003" -> <<"C", "0", "0", "3">>
    [] t = "C004" -> <<"C", "0", "0", "4">>
    [] t = "Acme" -> <<"A", "c", "m", "e">>
    [] t = "acorn" -> <<"a", "c", "o", "r", "n">>
    [] t = "50%" -> <<"5", "0", "%">>
    [] t = "Zoe" -> <<"Z", "o", "e">>
    [] t = "a@me" -> <<"a", "@", "m", "e">>
    [] t = "ac" -> <<"a", "c">>
    [] t = "ME" -> <<"M", "E">>
    [] t = "zz" -> <<"z", "z">>
    [] t = "%" -> <<"%">>
    [] t = "_" -> <<"_">>

\* the ASCII code of a character
ord(c) ==
  CASE c = "%" -> 37 [] c = "0" -> 48 [] c = "1" -> 49 [] c = "2" -> 50 [] c = "3" -> 51
    [] c = "4" -> 52 [] c = "5" -> 53
    [] c = "@" -> 64 [] c = "A" -> 65 [] c = "C" -> 67 [] c = "E" -> 69 [] c = "M" -> 77
    [] c = "Z" -> 90 [] c = "_" -> 95 [] c = "a" -> 97 [] c = "c" -> 99 [] c = "e" -> 101
    [] c = "m" -> 109 [] c = "n" -> 110 [] c = "o" -> 111 [] c = "r" -> 114 [] c = "z" -> 122

\* LIKE folds the case of ASCII letters
fold(c) == IF 65 <= ord(c) /\ ord(c) <= 90 THEN ord(c) + 32 ELSE ord(c)

\* text LIKE pattern: % matches any run of characters, _ any one character
RECURSIVE like(_, _)
like(text, pattern) ==
  IF pattern = <<>> THEN text = <<>>
  ELSE IF Head(pattern) = "%"
  THEN like(text, Tail(pattern)) \/ (text # <<>> /\ like(Tail(text), pattern))
  ELSE /\ text # <<>>
       /\ Head(pattern) = "_" \/ fold(Head(pattern)) = fold(Head(text))
       /\ like(Tail(text), Tail(pattern))

\* a < b in the BINARY collation ORDER BY uses
RECURSIVE text_less(_, _)
text_less(a, b) ==
  IF b = <<>> THEN FALSE
  ELSE IF a = <<>> THEN TRUE
  ELSE IF ord(Head(a)) # ord(Head(b)) THEN ord(Head(a)) < ord(Head(b))
  ELSE text_less(Tail(a), Tail(b))

\* ORDER BY c.name over the customer ids P, rows of equal name in rowid order
RECURSIVE by_name(_, _)
by_name(s, P) ==
  IF P = {} THEN <<>>
  ELSE LET c == CHOOSE a \in P : \A b \in P :
                  \/ text_less(chars(s.customers[a].name), chars(s.customers[b].name))
                  \/ (s.customers[a].name = s.customers[b].name /\ a <= b)
       IN <<c>> \o by_name(s, P \ {c})

\* MAX(so.order_date) of the customer's orders as the tree shows it: <<d>> for
\* the date d, <<>> for NULL, which the tree shows as 'Never'
last_order(s, customer_id) ==
  LET dates == {s.sales_orders[o].order_date :
                  o \in {o \in DOMAIN s.sales_orders : s.sales_orders[o].customer_id = customer_id}}
  IN IF dates = {} THEN <<>> ELSE <<CHOOSE d \in dates : \A e \in dates : e <= d>>

\* load_customers with the search entry and the status filter: the rows the
\* customers tree shows afterwards (the tree is cleared before it is filled)
load_customers(s, search_term, status_filter) ==
  LET pattern == <<"%">> \o chars(search_term) \o <<"%">>   \* f"%{search_term}%"
      found == {c \in DOMAIN s.customers :
                  /\ search_term # "" =>
                       \/ like(chars(s.customers[c].name), pattern)
                       \/ like(chars(s.customers[c].code), pattern)
                       \/ like(chars(s.customers[c].contact_person), pattern)
                       \/ like(chars(s.customers[c].email), pattern)
                  /\ status_filter # "All" => s.customers[c].status = status_filter}
      sorted == by_name(s, found)
  IN [i \in DOMAIN sorted |->
        [id |-> sorted[i], code |-> s.customers[sorted[i]].code,
         name |-> s.customers[sorted[i]].name, status |-> s.customers[sorted[i]].status,
         last_order |-> last_order(s, sorted[i])]]


\* ----------------------------------------------------------- the program
\* what the two date entries and the search entry and status box hold when
\* the tabs are built
DefaultDates == <<Today - 30, Today>>
DefaultFilter == [search_term |-> "", status_filter |-> "All"]

\* what a run has on its books: the entries of the audit log, the handler
\* runs whose writes are in the open transaction, the order-details windows
\* open, and the entries that differ from what the window starts with
Activity ==
  Len(db.audit_log) + pending + BagCardinality(order_dialogs)
    + (IF customer_filter # DefaultFilter THEN 1 ELSE 0)
    + (IF dash_dates # DefaultDates THEN 1 ELSE 0)
    + (IF dashboard.loaded THEN 1 ELSE 0)

\* the program has yet to be started on the file s
NotStarted(s) ==
  /\ db = s
  /\ committed = s
  /\ pending = 0
  /\ current_user = None
  /\ user_permissions = NoPermissions
  /\ login_dialog = FALSE
  /\ running = FALSE
  /\ clock = 1
  /\ last = Report("", "")
  /\ dashboard = NotLoaded
  /\ dash_dates = DefaultDates
  /\ customer_filter = DefaultFilter
  /\ customers_tree = <<>>
  /\ order_dialogs = EmptyBag

\* the window __init__ is written to build on the file s: connect,
\* create_tables and its commit, an anonymous session, the tabs with the
\* customers tree loaded, the status bar, and the login dialog of show_login.
\* No run of __main__ delivers it (see Start): it is the object whose methods
\* the handlers below are.
Constructed(s) ==
  /\ db = create_tables(s)
  /\ committed = db
  /\ pending = 0
  /\ current_user = None
  /\ user_permissions = NoPermissions
  /\ login_dialog = TRUE
  /\ running = TRUE
  /\ clock = 1
  /\ last = Report("__init__", "")
  /\ dashboard = NotLoaded
  /\ dash_dates = DefaultDates
  /\ customer_filter = DefaultFilter
  /\ customers_tree = load_customers(db, "", "All")
  /\ order_dialogs = EmptyBag

\* the file before a run of __main__, and the window whose methods are called
Init == \E s \in InitStores : NotStarted(s) \/ Constructed(s)

\* python3 human_resources.py on the file as written: the compiler rejects
\* line 388, no statement runs and the database file is not touched
StartAsWritten ==
  /\ ~running
  /\ last' = Report("__main__", "SyntaxError: unmatched ')'")
  /\ UNCHANGED <<db, committed, pending, current_user, user_permissions, login_dialog, running, clock,
                 screen>>

\* __main__ with the ")" of line 388 dropped: __init__ connects, runs
\* create_tables, which commits, and sets the anonymous session; create_menu
\* then raises AttributeError on self.show_dashboard.  create_main_content,
\* create_status_bar, show_login and root.mainloop() are not reached and the
\* process ends with the traceback.
Start ==
  /\ ~running
  /\ committed' = create_tables(committed)
  /\ db' = committed'
  /\ pending' = 0
  /\ current_user' = None
  /\ user_permissions' = NoPermissions
  /\ login_dialog' = FALSE
  /\ running' = FALSE
  /\ last' = Report("__init__", "AttributeError: 'EnhancedERP' object has no attribute 'show_dashboard'")
  /\ dashboard' = NotLoaded
  /\ dash_dates' = DefaultDates
  /\ customer_filter' = DefaultFilter
  /\ customers_tree' = <<>>
  /\ order_dialogs' = EmptyBag
  /\ UNCHANGED clock

\* the window manager's close button of the main window: the class installs
\* no WM_DELETE_WINDOW handler, so Tk destroys the window without on_closing,
\* mainloop returns and the process ends with its transaction open
DestroyWindow ==
  /\ running
  /\ db' = committed
  /\ pending' = 0
  /\ current_user' = None
  /\ user_permissions' = NoPermissions
  /\ login_dialog' = FALSE
  /\ running' = FALSE
  /\ last' = Report("WM_DELETE_WINDOW", "")
  /\ dashboard' = NotLoaded
  /\ customers_tree' = <<>>
  /\ customer_filter' = DefaultFilter
  /\ dash_dates' = DefaultDates
  /\ order_dialogs' = EmptyBag
  /\ UNCHANGED <<committed, clock>>

\* the login dialog is a plain Toplevel: the window manager's close button
\* destroys it and releases its grab
CloseLoginDialog ==
  /\ running /\ login_dialog
  /\ login_dialog' = FALSE
  /\ last' = Report("close_login_dialog", "")
  /\ UNCHANGED <<db, committed, pending, current_user, user_permissions, running, clock, screen>>

\* what a handler's writes and its commit leave behind; pending counts the
\* handler runs whose writes are in the open transaction
Written(r) ==
  /\ db' = r.db
  /\ committed' = IF r.commit THEN r.db ELSE committed
  /\ pending' = IF r.commit THEN 0 ELSE IF r.db # db THEN pending + 1 ELSE pending
  /\ clock' = IF r.db # db THEN Tick(clock) ELSE clock

DoLogin(username, password) ==
  /\ running /\ login_dialog
  /\ Activity < MaxActivity
  /\ LET r == do_login(db, current_user, user_permissions, username, password, clock) IN
     /\ Written(r)
     /\ current_user' = r.current_user
     /\ user_permissions' = r.user_permissions
     /\ login_dialog' = r.login_dialog
     /\ last' = Report("do_login", r.outcome)
  /\ UNCHANGED <<running, screen>>

\* a Logout button that takes every answer to its prompt for a yes
LogoutUnasked(confirm) ==
  /\ running /\ ~login_dialog
  /\ Activity < MaxActivity
  /\ LET r == logout(db, current_user, user_permissions, TRUE, clock) IN
     /\ Written(r)
     /\ current_user' = r.current_user
     /\ user_permissions' = r.user_permissions
     /\ login_dialog' = r.login_dialog
     /\ last' = Report("logout", r.outcome)
  /\ UNCHANGED <<running, screen>>

Logout(confirm) ==
  /\ running /\ ~login_dialog
  /\ Activity < MaxActivity
  /\ LET r == logout(db, current_user, user_permissions, confirm, clock) IN
     /\ Written(r)
     /\ current_user' = r.current_user
     /\ user_permissions' = r.user_permissions
     /\ login_dialog' = r.login_dialog
     /\ last' = Report("logout", r.outcome)
  /\ UNCHANGED <<running, screen>>

OnClosing(confirm) ==
  /\ running
  /\ Activity < MaxActivity
  /\ LET r == on_closing(db, current_user, confirm, clock) IN
     IF r.running
     THEN /\ last' = Report("on_closing", r.outcome)
          /\ UNCHANGED <<db, committed, pending, current_user, user_permissions, login_dialog, running, clock,
                         screen>>
     ELSE \* the process ends: only the file is left, the window is destroyed
          /\ committed' = IF r.commit THEN r.db ELSE committed
          /\ db' = committed'
          /\ pending' = 0
          /\ clock' = IF r.commit THEN Tick(clock) ELSE clock
          /\ current_user' = None
          /\ user_permissions' = NoPermissions
          /\ login_dialog' = FALSE
          /\ running' = FALSE
          /\ last' = Report("on_closing", r.outcome)
          /\ dashboard' = NotLoaded
          /\ customers_tree' = <<>>
          /\ customer_filter' = DefaultFilter
          /\ dash_dates' = DefaultDates
          /\ order_dialogs' = EmptyBag

SaveCustomer(customer_id, form) ==
  /\ running /\ ~login_dialog
  /\ Activity < MaxActivity
  /\ customer_id = 0 => db.customers_seq < MaxCustomerId
  /\ LET r == save_customer(db, current_user, customer_id, form, clock) IN
     /\ Written(r)
     /\ last' = Report("save_customer", r.outcome)
     \* self.load_customers() after the commit
     /\ customers_tree' = IF r.commit
                          THEN load_customers(r.db, customer_filter.search_term,
                                              customer_filter.status_filter)
                          ELSE customers_tree
  /\ UNCHANGED <<current_user, user_permissions, login_dialog, running,
                 dashboard, dash_dates, customer_filter, order_dialogs>>

\* the ids in the rows of the customers tree, of which one can have the focus
Listed == {customers_tree[i].id : i \in DOMAIN customers_tree}

DeleteCustomer(customer_id, confirm) ==
  /\ running /\ ~login_dialog
  /\ Activity < MaxActivity
  /\ customer_id \in Listed \cup {0}
  /\ LET r == delete_customer(db, current_user, customer_id, confirm, clock) IN
     /\ Written(r)
     /\ last' = Report("delete_customer", r.outcome)
     \* self.load_customers() after the commit
     /\ customers_tree' = IF r.commit
                          THEN load_customers(r.db, customer_filter.search_term,
                                              customer_filter.status_filter)
                          ELSE customers_tree
  /\ UNCHANGED <<current_user, user_permissions, login_dialog, running,
                 dashboard, dash_dates, customer_filter, order_dialogs>>

\* a status button whose handler also clears the order's total
UpdateOrderStatusClearingTotal(order_id, new_status) ==
  /\ running /\ ~login_dialog
  /\ Activity < MaxActivity
  /\ LET u == update_order_status(db, current_user, order_id, new_status, clock)
         r == [u EXCEPT !.db.sales_orders = [o \in DOMAIN @ |->
                          IF o = order_id THEN [@[o] EXCEPT !.total_amount = 0] ELSE @[o]]] IN
     /\ Written(r)
     /\ last' = Report("update_order_status", r.outcome)
     /\ dashboard' = IF r.commit
                     THEN load_dashboard_data(r.db, dash_dates[1], dash_dates[2]).dashboard
                     ELSE dashboard
  /\ UNCHANGED <<current_user, user_permissions, login_dialog, running,
                 dash_dates, customers_tree, customer_filter, order_dialogs>>

UpdateOrderStatus(order_id, new_status) ==
  /\ running /\ ~login_dialog
  /\ Activity < MaxActivity
  /\ LET r == update_order_status(db, current_user, order_id, new_status, clock) IN
     /\ Written(r)
     /\ last' = Report("update_order_status", r.outcome)
     \* self.load_dashboard_data() after the commit
     /\ dashboard' = IF r.commit
                     THEN load_dashboard_data(r.db, dash_dates[1], dash_dates[2]).dashboard
                     ELSE dashboard
  /\ UNCHANGED <<current_user, user_permissions, login_dialog, running,
                 dash_dates, customers_tree, customer_filter, order_dialogs>>

\* a stub that files a Draft order for whatever customer id it is given
create_order_for_customer_unchecked(s, customer_id) ==
  [db |-> [s EXCEPT !.sales_orders = Append(@, [customer_id |-> customer_id, order_date |-> 0,
                                                total_amount |-> 0, status |-> "Draft",
                                                updated_at |-> 0])],
   commit |-> TRUE,
   outcome |-> "AttributeError: 'EnhancedERP' object has no attribute 'show_sales'"]

\* create_order_for_customer(customer_id): customer_id 0 is a call without
\* an id and without a row picked in the tree; otherwise self.show_sales(),
\* which the class does not define, raises before the info box is shown, and
\* nothing in the handler catches it.  No statement is executed.
create_order_for_customer(s, customer_id) ==
  IF customer_id = 0
  THEN [db |-> s, commit |-> FALSE, outcome |-> "Please select a customer first"]
  ELSE [db |-> s, commit |-> FALSE,
        outcome |-> "AttributeError: 'EnhancedERP' object has no attribute 'show_sales'"]

CreateOrderForCustomer(customer_id) ==
  /\ running /\ ~login_dialog
  /\ Len(db.sales_orders) <= Len(UsedStore.sales_orders)
  /\ Activity < MaxActivity
  /\ LET r == create_order_for_customer(db, customer_id) IN
     /\ Written(r)
     /\ last' = Report("create_order_for_customer", r.outcome)
  /\ UNCHANGED <<current_user, user_permissions, login_dialog, running, screen>>

\* dates are picked in the two date entries of the dashboard
SetDashDates(start_date, end_date) ==
  /\ running /\ ~login_dialog
  /\ dash_dates' = <<start_date, end_date>>
  /\ dash_dates' # dash_dates
  /\ last' = Report("dash_date_entries", "")
  /\ UNCHANGED <<db, committed, pending, clock, current_user, user_permissions, login_dialog,
                 running, dashboard, customers_tree, customer_filter, order_dialogs>>

\* the Apply button of the dashboard: load_dashboard_data reads the two date
\* entries
LoadDashboardData ==
  /\ running /\ ~login_dialog
  /\ LET r == load_dashboard_data(db, dash_dates[1], dash_dates[2]) IN
     /\ Written([db |-> r.db, commit |-> FALSE])
     /\ dashboard' = r.dashboard
  /\ last' = Report("load_dashboard_data", "")
  /\ UNCHANGED <<current_user, user_permissions, login_dialog, running,
                 dash_dates, customers_tree, customer_filter, order_dialogs>>

\* text is typed into the search entry of the customers tab, a status is
\* picked in its status box
EditCustomerFilter(search_term, status_filter) ==
  /\ running /\ ~login_dialog
  /\ customer_filter' = [search_term |-> search_term, status_filter |-> status_filter]
  /\ customer_filter' # customer_filter
  /\ last' = Report("customer_search_entry", "")
  /\ UNCHANGED <<db, committed, pending, clock, current_user, user_permissions, login_dialog,
                 running, dashboard, dash_dates, customers_tree, order_dialogs>>

\* the Search and Refresh buttons of the customers tab and <Return> in its
\* search entry: load_customers reads the search entry and the status box
LoadCustomers ==
  /\ running /\ ~login_dialog
  /\ customers_tree' = load_customers(db, customer_filter.search_term,
                                      customer_filter.status_filter)
  /\ last' = Report("load_customers", "")
  /\ UNCHANGED <<db, committed, pending, clock, current_user, user_permissions, login_dialog,
                 running, dashboard, dash_dates, customer_filter, order_dialogs>>

\* the Clear button of the customers tab: the search entry is emptied, the
\* status box set to All, and load_customers run
ClearCustomerFilters ==
  /\ running /\ ~login_dialog
  /\ customer_filter' = DefaultFilter
  /\ customers_tree' = load_customers(db, "", "All")
  /\ last' = Report("clear_customer_filters", "")
  /\ UNCHANGED <<db, committed, pending, clock, current_user, user_permissions, login_dialog,
                 running, dashboard, dash_dates, order_dialogs>>

\* ------------------------------------------------- the queries on their own
\* the built window (see Constructed) on a store s that holds the tables, once
\* its login dialog was closed; like Constructed, no run of __main__ delivers it
OnStore(s) ==
  /\ db = s
  /\ committed = s
  /\ pending = 0
  /\ current_user = None
  /\ user_permissions = NoPermissions
  /\ login_dialog = FALSE
  /\ running = TRUE
  /\ clock = 1
  /\ last = Report("close_login_dialog", "")
  /\ dashboard = NotLoaded
  /\ dash_dates = DefaultDates
  /\ customer_filter = DefaultFilter
  /\ customers_tree = load_customers(s, "", "All")
  /\ order_dialogs = EmptyBag

\* sales_orders tables: an order in each of two consecutive days
OrderTables ==
  {<<[customer_id |-> 1, order_date |-> 2, total_amount |-> a, status |-> "Draft", updated_at |-> 0],
     [customer_id |-> 1, order_date |-> 3, total_amount |-> b, status |-> "Shipped", updated_at |-> 0]>> :
     a \in Amounts, b \in Amounts}

\* products tables: every mix of four kinds of product up to a length, and
\* tables of products that are all out of stock
ProductKinds ==
  {[current_stock |-> 0, min_stock_level |-> 2, status |-> "Active"],
   [current_stock |-> 2, min_stock_level |-> 2, status |-> "Active"],
   [current_stock |-> 3, min_stock_level |-> 2, status |-> "Active"],
   [current_stock |-> 0, min_stock_level |-> 2, status |-> "Discontinued"]}

ProductTables ==
  UNION {[1..n -> ProductKinds] : n \in 0..MaxMixedProducts}
  \cup {[i \in 1..n |-> [current_stock |-> 0, min_stock_level |-> i % 3, status |-> "Active"]] :
          n \in 0..MaxProducts}

DashStores ==
  {[UsedStore EXCEPT !.sales_orders = o] : o \in OrderTables}
  \cup {[UsedStore EXCEPT !.products = p, !.sales_order_items = <<>>,
                          !.inventory_movements = <<>>] : p \in ProductTables}

InitDashboard == \E s \in DashStores : OnStore(s)

NextDashboard ==
  \/ \E start_date \in DashDays, end_date \in DashDays : SetDashDates(start_date, end_date)
  \/ LoadDashboardData

SpecDashboard == InitDashboard /\ [][NextDashboard]_vars

\* customers tables: customer 1, who placed the orders, and up to a number of
\* customers in all, each of one of four kinds, customer i having code C00i
CustomerKinds ==
  {[name |-> "Acme", email |-> "", status |-> "Active"],
   [name |-> "acorn", email |-> "", status |-> "On Hold"],
   [name |-> "50%", email |-> "", status |-> "Active"],
   [name |-> "Zoe", email |-> "a@me", status |-> "Active"]}

CodeOf(i) == CASE i = 1 -> "C001" [] i = 2 -> "C002" [] i = 3 -> "C003" [] i = 4 -> "C004"

CustomerTables ==
  UNION {{[i \in 1..n |-> [code |-> CodeOf(i), name |-> k[i].name, contact_person |-> "",
                           email |-> k[i].email, status |-> k[i].status,
                           created_by |-> 0, created_at |-> 0, updated_at |-> 0]] :
            k \in [1..n -> CustomerKinds]} : n \in 1..MaxListedCustomers}

CustomerStores ==
  {[UsedStore EXCEPT !.customers = t, !.customers_seq = Cardinality(DOMAIN t)] :
     t \in CustomerTables}

InitCustomers == \E s \in CustomerStores : OnStore(s)

NextCustomers ==
  \/ \E search_term \in SearchTerms, status_filter \in StatusFilters :
       EditCustomerFilter(search_term, status_filter)
  \/ LoadCustomers
  \/ ClearCustomerFilters

SpecCustomers == InitCustomers /\ [][NextCustomers]_vars

\* ---------------------------------------------- the bootstrap and the session
\* the file sqlite3.connect creates when there is none
EmptyStore ==
  [users |-> <<>>, permissions |-> <<>>, customers |-> <<>>, customers_seq |-> 0,
   products |-> <<>>, sales_orders |-> <<>>, sales_order_items |-> <<>>,
   inventory_movements |-> <<>>, audit_log |-> <<>>]

\* the files a run may find: none, one with data and no user, and the files
\* earlier runs left
BootStores ==
  {EmptyStore, BaseStore, create_tables(EmptyStore), create_tables(BaseStore), UsedStore, HeldStore}

InitBootstrap == \E s \in BootStores : NotStarted(s) \/ Constructed(s)

\* runs in which no customer and no order is written
NextBootstrap ==
  \/ StartAsWritten
  \/ Start
  \/ DestroyWindow
  \/ CloseLoginDialog
  \/ \E username \in Usernames, password \in Passwords : DoLogin(username, password)
  \/ \E confirm \in BOOLEAN : Logout(confirm)
  \/ \E confirm \in BOOLEAN : OnClosing(confirm)
  \/ \E customer_id \in 0..db.customers_seq : CreateOrderForCustomer(customer_id)

SpecBootstrap == InitBootstrap /\ [][NextBootstrap]_vars

\* ------------------------------------------------- the order-details windows
\* show_sales_order_details: the status of the row SELECT so.*, c.name FROM
\* sales_orders so JOIN customers c ... WHERE so.id = ? returns, "" when it
\* returns none ("Order not found")
show_sales_order_details(s, order_id) ==
  IF /\ order_id \in DOMAIN s.sales_orders
     /\ s.sales_orders[order_id].customer_id \in DOMAIN s.customers
  THEN s.sales_orders[order_id].status
  ELSE ""

\* the statuses the window's buttons pass to update_order_status, given the
\* status the window read
status_buttons(status) ==
  (IF status \in {"Draft", "Confirmed"} THEN {"Shipped"} ELSE {})
  \cup (IF status = "Shipped" THEN {"Completed"} ELSE {})

\* a row of an orders tree is opened
ShowSalesOrderDetails(order_id) ==
  /\ running /\ ~login_dialog
  /\ LET status == show_sales_order_details(db, order_id) IN
     IF status = ""
     THEN /\ order_dialogs' = order_dialogs
          /\ last' = Report("show_sales_order_details", "Order not found")
     ELSE \* a new Toplevel, whatever windows are open already
          /\ order_dialogs' = order_dialogs (+) SetToBag({[order_id |-> order_id, status |-> status]})
          /\ BagCardinality(order_dialogs') <= MaxDialogs
          /\ last' = Report("show_sales_order_details", "")
  /\ UNCHANGED <<db, committed, pending, clock, current_user, user_permissions, login_dialog,
                 running, dashboard, dash_dates, customers_tree, customer_filter>>

\* the Close button of an order-details window
CloseOrderDialog(dialog) ==
  /\ running /\ ~login_dialog
  /\ BagIn(dialog, order_dialogs)
  /\ order_dialogs' = order_dialogs (-) SetToBag({dialog})
  /\ last' = Report("close_order_dialog", "")
  /\ UNCHANGED <<db, committed, pending, clock, current_user, user_permissions, login_dialog,
                 running, dashboard, dash_dates, customers_tree, customer_filter>>

\* "Mark as Shipped" or "Mark as Completed" of an order-details window: the
\* window stays open and keeps its buttons
ClickStatusButton(dialog, new_status) ==
  /\ running /\ ~login_dialog
  /\ BagIn(dialog, order_dialogs)
  /\ new_status \in status_buttons(dialog.status)
  /\ Len(db.audit_log) < MaxDialogAudit
  /\ LET r == update_order_status(db, current_user, dialog.order_id, new_status, clock) IN
     /\ Written(r)
     /\ last' = Report("update_order_status", r.outcome)
     \* self.load_dashboard_data() after the commit
     /\ dashboard' = IF r.commit
                     THEN load_dashboard_data(r.db, dash_dates[1], dash_dates[2]).dashboard
                     ELSE dashboard
  /\ UNCHANGED <<current_user, user_permissions, login_dialog, running,
                 dash_dates, customers_tree, customer_filter, order_dialogs>>

\* the built window (see Constructed) once do_login has read the user of
\* username and password on store s and the login dialog was closed; like
\* Constructed, no run of __main__ delivers it
LoggedIn(s, username, password) ==
  LET r == do_login(s, None, NoPermissions, username, password, 1) IN
  /\ db = r.db
  /\ committed = r.db
  /\ pending = 0
  /\ current_user = r.current_user
  /\ user_permissions = r.user_permissions
  /\ login_dialog = FALSE
  /\ running = TRUE
  /\ clock = 1
  /\ last = Report("close_login_dialog", "")
  /\ dashboard = NotLoaded
  /\ dash_dates = DefaultDates
  /\ customer_filter = DefaultFilter
  /\ customers_tree = load_customers(s, "", "All")
  /\ order_dialogs = EmptyBag

\* the ids of the rows that are opened: the two orders and an id no order has
ShownOrderIds == 1..3

InitDialogs ==
  \E status \in OrderStatuses :
    LoggedIn([UsedStore EXCEPT !.sales_orders[1].status = status], "admin", "admin123")

NextDialogs ==
  \/ \E order_id \in ShownOrderIds : ShowSalesOrderDetails(order_id)
  \/ \E dialog \in BagToSet(order_dialogs) : CloseOrderDialog(dialog)
  \/ \E dialog \in BagToSet(order_dialogs), new_status \in OrderStatuses :
       ClickStatusButton(dialog, new_status)

SpecDialogs == InitDialogs /\ [][NextDialogs]_vars

\* ------------------------------------------------------- the whole window
Forms == [code : Codes, name : Names, status : FormStatuses]

\* what is typed and picked in the entries, and the rows that are opened, when
\* every handler is run with them: the entries as the window starts with them
\* and one other text and one other pair of dates; an order and an id no order
\* has
TypedFilters == {DefaultFilter, [search_term |-> "zz", status_filter |-> "All"]}
PickedDates == {DefaultDates, <<Today - 3, Today>>}
OpenedOrderIds == {1, 3}

\* The events of the screen (the entries, the two loads, the order windows) are
\* explored before the first write of a run, while MaxActivity leaves room for
\* a handler that writes after them; SpecDashboard, SpecCustomers and
\* SpecDialogs run them without that limit.
ScreenBudget == Len(db.audit_log) + pending = 0 /\ Activity + 1 < MaxActivity

Next ==
  \/ StartAsWritten
  \/ Start
  \/ DestroyWindow
  \/ CloseLoginDialog
  \/ \E username \in Usernames, password \in Passwords : DoLogin(username, password)
  \/ \E confirm \in BOOLEAN : Logout(confirm)
  \/ \E confirm \in BOOLEAN : OnClosing(confirm)
  \/ \E customer_id \in 0..db.customers_seq, form \in Forms : SaveCustomer(customer_id, form)
  \/ \E customer_id \in 0..db.customers_seq, confirm \in BOOLEAN : DeleteCustomer(customer_id, confirm)
  \/ \E order_id \in OrderIds, new_status \in NewStatuses : UpdateOrderStatus(order_id, new_status)
  \/ \E customer_id \in 0..db.customers_seq : CreateOrderForCustomer(customer_id)
  \/ \E f \in TypedFilters : ScreenBudget /\ EditCustomerFilter(f.search_term, f.status_filter)
  \/ ScreenBudget /\ LoadCustomers
  \/ ScreenBudget /\ ClearCustomerFilters
  \/ \E d \in PickedDates : ScreenBudget /\ SetDashDates(d[1], d[2])
  \/ ScreenBudget /\ LoadDashboardData
  \/ \E order_id \in OpenedOrderIds : ScreenBudget /\ ShowSalesOrderDetails(order_id)
  \/ \E dialog \in BagToSet(order_dialogs) : CloseOrderDialog(dialog)
  \/ \E dialog \in BagToSet(order_dialogs), new_status \in OrderStatuses :
       Activity < MaxActivity /\ ClickStatusButton(dialog, new_status)

Spec == Init /\ [][Next]_vars

\* the same window on the store with two customers, the second without orders
InitHeld == NotStarted(HeldStore) \/ Constructed(HeldStore)

SpecHeld == InitHeld /\ [][Next]_vars

TypeOK ==
  /\ running \in BOOLEAN /\ login_dialog \in BOOLEAN
  /\ clock \in 1..MaxTime
  /\ pending \in 0..MaxActivity
  /\ Activity <= MaxActivity + 1
  /\ db.customers_seq <= MaxCustomerId


\* ================================================================ claims
Mutating == {"save_customer", "delete_customer", "update_order_status"}
CustomerIds == 0..MaxCustomerId

\* the step just taken was handler op, and it reported success / failure
Failed(l) == l.outcome \notin {"Success", "Login successful", "Logged out", "Closed"}
Succeeded(op) == last'.op = op /\ ~Failed(last')

\* ------------------------------------------------------------------- C1
LegalTransitions == {<<"Draft", "Shipped">>, <<"Confirmed", "Shipped">>, <<"Shipped", "Completed">>}

\* C1: update_order_status(order, new_status) changes the stored status only
\* for the pairs Draft->Shipped, Confirmed->Shipped, Shipped->Completed; for
\* every other pair it reports an error and leaves the stored status as it
\* was, and every stored status is one of Draft, Confirmed, Shipped,
\* Completed.
C1_OnlyLegalTransitions ==
  [][last'.op = "update_order_status" =>
       \A order_id \in OrderIds, new_status \in NewStatuses :
         UpdateOrderStatus(order_id, new_status) =>
           /\ \A o \in DOMAIN committed'.sales_orders :
                committed'.sales_orders[o].status \in OrderStatuses
           /\ <<db.sales_orders[order_id].status, new_status>> \notin LegalTransitions =>
                /\ committed'.sales_orders[order_id].status = committed.sales_orders[order_id].status
                /\ last'.outcome = "Error"]_vars

\* ------------------------------------------------------------------- C2
\* C2: every operation is all-or-nothing.  When it reports failure the
\* committed store is what it was, and what a later successful operation
\* commits is its own change and audit entry on top of the committed store,
\* nothing a failed operation left behind; after success nothing is pending.
C2_AllOrNothing ==
  [][/\ (last'.op \in Mutating \cup {"do_login", "logout"} /\ Failed(last')) => committed' = committed
     /\ Succeeded("save_customer") =>
          \A customer_id \in CustomerIds, form \in Forms :
            SaveCustomer(customer_id, form) =>
              /\ committed' = save_customer(committed, current_user, customer_id, form, clock).db
              /\ db' = committed'
     /\ Succeeded("delete_customer") =>
          \A customer_id \in CustomerIds :
            DeleteCustomer(customer_id, TRUE) =>
              /\ committed' = delete_customer(committed, current_user, customer_id, TRUE, clock).db
              /\ db' = committed'
     /\ Succeeded("update_order_status") =>
          \A order_id \in OrderIds, new_status \in NewStatuses :
            UpdateOrderStatus(order_id, new_status) =>
              /\ committed' = update_order_status(committed, current_user, order_id, new_status, clock).db
              /\ db' = committed'
     /\ Succeeded("do_login") =>
          \A username \in Usernames, password \in Passwords :
            DoLogin(username, password) =>
              /\ committed' = do_login(committed, current_user, user_permissions, username, password, clock).db
              /\ db' = committed'
     /\ (Succeeded("logout") /\ current_user # None) =>
              /\ committed' = logout(committed, current_user, user_permissions, TRUE, clock).db
              /\ db' = committed']_vars

\* ------------------------------------------------------------------- C3
AuditEntry(user_id, action, table_name, record_id, e) ==
  /\ e.user_id = user_id /\ e.action = action
  /\ e.table_name = table_name /\ e.record_id = record_id

OneEntryAdded(a, b) == Len(b) = Len(a) + 1 /\ SubSeq(b, 1, Len(a)) = a

\* C3: a successful customer create, update, delete, order status update,
\* login and logout each append exactly one audit_log entry, whose action
\* names the operation and whose table_name and record_id are customers and
\* the customer id, sales_orders and the order id, users and the user id; an
\* operation that fails appends none.
C3_OneAuditEntry ==
  [][LET a == db.audit_log
         b == db'.audit_log
         e == b[Len(b)]
     IN /\ (last'.op \in Mutating \cup {"do_login", "logout", "on_closing"} /\ Failed(last')) => b = a
        /\ Succeeded("save_customer") =>
             \A customer_id \in CustomerIds, form \in Forms :
               SaveCustomer(customer_id, form) =>
                 /\ OneEntryAdded(a, b)
                 /\ IF customer_id = 0
                    THEN /\ AuditEntry(current_user.id, "create", "customers", db'.customers_seq, e)
                         /\ DOMAIN db'.customers = DOMAIN db.customers \cup {e.record_id}
                         /\ e.record_id \notin DOMAIN db.customers
                    ELSE AuditEntry(current_user.id, "update", "customers", customer_id, e)
        /\ Succeeded("delete_customer") =>
             \A customer_id \in CustomerIds :
               DeleteCustomer(customer_id, TRUE) =>
                 /\ OneEntryAdded(a, b)
                 /\ AuditEntry(current_user.id, "delete", "customers", customer_id, e)
        /\ Succeeded("update_order_status") =>
             \A order_id \in OrderIds, new_status \in NewStatuses :
               UpdateOrderStatus(order_id, new_status) =>
                 /\ OneEntryAdded(a, b)
                 /\ AuditEntry(current_user.id, "update", "sales_orders", order_id, e)
        /\ Succeeded("do_login") =>
                 /\ OneEntryAdded(a, b)
                 /\ current_user' # None
                 /\ AuditEntry(current_user'.id, "login", "users", current_user'.id, e)
        /\ ((Succeeded("logout") \/ Succeeded("on_closing")) /\ current_user # None) =>
                 /\ OneEntryAdded(a, b)
                 /\ AuditEntry(current_user.id, "logout", "users", current_user.id, e)]_vars

\* a customer was created, and its audit entry is the last one
C3_Witness ==
  /\ last.op = "save_customer" /\ last.outcome = "Success"
  /\ Len(db.audit_log) >= 2
  /\ db.audit_log[Len(db.audit_log)].action = "create"
  /\ db.audit_log[Len(db.audit_log)].record_id \in DOMAIN db.customers


\* ------------------------------------------------------------------- C4
\* authorize(principal, module, capability) of the specification: a lookup in
\* the capability map, where a row of module "all" grants the capability on
\* every module
authorize(perms, module, capability) ==
  \/ module \in DOMAIN perms /\ perms[module][capability]
  \/ "all" \in DOMAIN perms /\ perms["all"][capability]

\* C4: a customer create, update or delete and an order status update run by
\* a logged-in principal whose capability map has no row for the module, or
\* a row without the needed capability, is refused and writes nothing: no
\* data row and no audit entry.
C4_RefusedWithoutCapability ==
  [][current_user # None =>
     /\ last'.op = "save_customer" =>
          \A customer_id \in CustomerIds, form \in Forms :
            (/\ SaveCustomer(customer_id, form)
             /\ ~authorize(user_permissions, "customers", IF customer_id = 0 THEN "create" ELSE "edit"))
            => (db' = db /\ committed' = committed /\ Failed(last'))
     /\ last'.op = "delete_customer" =>
          \A customer_id \in CustomerIds :
            (DeleteCustomer(customer_id, TRUE) /\ ~authorize(user_permissions, "customers", "delete"))
            => (db' = db /\ committed' = committed /\ Failed(last'))
     /\ last'.op = "update_order_status" =>
          \A order_id \in OrderIds, new_status \in NewStatuses :
            (UpdateOrderStatus(order_id, new_status) /\ ~authorize(user_permissions, "sales_orders", "edit"))
            => (db' = db /\ committed' = committed /\ Failed(last'))]_vars

\* ------------------------------------------------------------------- C5

\* the items of an order, and the quantity of a product they add up to
ItemsOf(s, order_id) ==
  {i \in DOMAIN s.sales_order_items : s.sales_order_items[i].order_id = order_id}
OrderedQuantity(s, order_id, product_id) ==
  SumSeq([i \in DOMAIN s.sales_order_items |->
            IF /\ s.sales_order_items[i].order_id = order_id
               /\ s.sales_order_items[i].product_id = product_id
            THEN s.sales_order_items[i].quantity ELSE 0])

\* the movements added between two stores
AddedMovements(s, t) ==
  SubSeq(t.inventory_movements, Len(s.inventory_movements) + 1, Len(t.inventory_movements))

\* C5: a status update that commits a change into Shipped or Completed
\* commits, with the status change, one inventory movement of type Sale per item of the order, of
\* quantity -(item quantity), and lowers the product's current_stock by the
\* item quantity; an update that leaves the order in Draft or Confirmed
\* inserts no movement and changes no stock.
C5_MovementsOnShipment ==
  [][last'.op = "update_order_status" =>
       \A order_id \in OrderIds, new_status \in NewStatuses :
         UpdateOrderStatus(order_id, new_status) =>
           LET added == AddedMovements(committed, committed')
               into == /\ committed'.sales_orders[order_id].status \in {"Shipped", "Completed"}
                       /\ committed'.sales_orders[order_id].status # committed.sales_orders[order_id].status
           IN IF into
              THEN /\ Len(added) = Cardinality(ItemsOf(committed, order_id))
                   /\ \A i \in ItemsOf(committed, order_id) :
                        \E m \in DOMAIN added :
                          /\ added[m].product_id = committed.sales_order_items[i].product_id
                          /\ added[m].movement_type = "Sale"
                          /\ added[m].quantity = -committed.sales_order_items[i].quantity
                   /\ \A p \in DOMAIN committed.products :
                        committed'.products[p].current_stock =
                          committed.products[p].current_stock - OrderedQuantity(committed, order_id, p)
              ELSE /\ added = <<>>
                   /\ committed'.products = committed.products]_vars

\* ------------------------------------------------------------------- C6
\* the signed sum of the quantities of a product's movements
MovementSum(s, product_id) ==
  SumSeq([i \in DOMAIN s.inventory_movements |->
            IF s.inventory_movements[i].product_id = product_id
            THEN s.inventory_movements[i].quantity ELSE 0])

StockMatchesMovements(s) ==
  \A p \in DOMAIN s.products : s.products[p].current_stock = MovementSum(s, p)

\* an order status update in the audit log, and that order Shipped or Completed
AfterShipment(s) ==
  \E i \in DOMAIN s.audit_log :
    /\ s.audit_log[i].action = "update" /\ s.audit_log[i].table_name = "sales_orders"
    /\ s.audit_log[i].record_id \in OrderIds
    /\ s.sales_orders[s.audit_log[i].record_id].status \in {"Shipped", "Completed"}

\* C6: in every state after an order status update into Shipped or Completed,
\* every product's current_stock is the signed sum of the quantities of its
\* inventory_movements rows, in the connection's view and in the file.
C6_StockIsSumOfMovements ==
  /\ AfterShipment(db) => StockMatchesMovements(db)
  /\ AfterShipment(committed) => StockMatchesMovements(committed)

\* order 1 was shipped by a logged-in user and the change is committed
C6_Witness ==
  /\ AfterShipment(committed)
  /\ committed.sales_orders[1].status = "Shipped"
  /\ last.op = "update_order_status" /\ last.outcome = "Success"
  /\ MovementSum(committed, 1) = 10


\* ------------------------------------------------------------------- C7
\* C7: do_login succeeds if and only if a user row has the given username, a
\* password equal to the hash of the given secret and is_active = 1 (so an
\* inactive account fails with the correct secret); when it fails the session
\* stays anonymous with an empty capability map, no users row changes and no
\* audit entry is appended.
C7_LoginIffActiveMatch ==
  [][last'.op = "do_login" =>
       \A username \in Usernames, password \in Passwords :
         DoLogin(username, password) =>
           /\ ~Failed(last') <=>
                \E i \in DOMAIN db.users :
                  /\ db.users[i].username = username
                  /\ db.users[i].password = hash_password(password)
                  /\ db.users[i].is_active = 1
           /\ Failed(last') =>
                /\ current_user' = None /\ user_permissions' = NoPermissions
                /\ db'.users = db.users /\ db'.audit_log = db.audit_log
                /\ committed' = committed]_vars

\* ------------------------------------------------------------------- C8
\* C8: the session starts anonymous, becomes active only by a successful
\* do_login, returns to anonymous only by a confirmed logout or close, never
\* passes from one principal to another without being anonymous in between,
\* and after a logout current_user is unset and the capability map is empty.
C8_SessionMachine ==
  /\ current_user = None
  /\ [][/\ (current_user = None /\ current_user' # None) => Succeeded("do_login")
        /\ (current_user # None /\ current_user' = None) =>
             (Succeeded("logout") \/ Succeeded("on_closing"))
        /\ (current_user # None /\ current_user' # None) => current_user' = current_user
        /\ Succeeded("do_login") => current_user' # None
        /\ Succeeded("logout") => (current_user' = None /\ user_permissions' = NoPermissions)]_vars

\* ------------------------------------------------------------------- C9
HasOrders(s, customer_id) ==
  \E o \in DOMAIN s.sales_orders : s.sales_orders[o].customer_id = customer_id

OrdersHaveCustomers(s) ==
  \A o \in DOMAIN s.sales_orders : s.sales_orders[o].customer_id \in DOMAIN s.customers

\* C9: delete_customer on a customer that a sales order refers to reports
\* that it cannot be deleted, leaves the row and appends no audit entry; on a
\* customer without orders it removes the row; and in every state every
\* sales order's customer_id is the id of an existing customer.
C9_DeleteGuardsOrders ==
  /\ [](OrdersHaveCustomers(db) /\ OrdersHaveCustomers(committed))
  /\ [][last'.op = "delete_customer" =>
          \A customer_id \in CustomerIds :
            DeleteCustomer(customer_id, TRUE) =>
              IF HasOrders(db, customer_id)
              THEN /\ last'.outcome = "Cannot delete customer with existing orders"
                   /\ db' = db /\ committed' = committed
              ELSE customer_id \notin DOMAIN db'.customers]_vars

\* the delete of the customer that has orders was turned down
C9_Witness ==
  /\ last.op = "delete_customer"
  /\ last.outcome = "Cannot delete customer with existing orders"
  /\ HasOrders(db, 1) /\ 1 \in DOMAIN db.customers

\* ------------------------------------------------------------------ C10
\* the fields of a form that the specification calls failing
FailingFields(form) ==
  (IF form.code = "" THEN {"code"} ELSE {})
  \cup (IF form.name = "" THEN {"name"} ELSE {})
  \cup (IF form.status \notin CustomerStatuses THEN {"status"} ELSE {})

\* the fields a list of validation messages names
ListedFields(errors) ==
  (IF \E i \in DOMAIN errors : errors[i] = "Customer code is required" THEN {"code"} ELSE {})
  \cup (IF \E i \in DOMAIN errors : errors[i] = "Customer name is required" THEN {"name"} ELSE {})
  \cup (IF \E i \in DOMAIN errors : errors[i] = "Status is required" THEN {"status"} ELSE {})

\* C10: save_customer with an empty code, an empty name or a status outside
\* Active, Inactive, On Hold reports a validation error that lists every
\* failing field, and leaves the customers table and the audit log unchanged.
C10_ValidationListsEveryField ==
  [][last'.op = "save_customer" =>
       \A customer_id \in CustomerIds, form \in Forms :
         (SaveCustomer(customer_id, form) /\ FailingFields(form) # {}) =>
           /\ last'.outcome = "Validation Error"
           /\ ListedFields(save_customer(db, current_user, customer_id, form, clock).errors)
                = FailingFields(form)
           /\ db'.customers = db.customers /\ db'.audit_log = db.audit_log
           /\ committed' = committed]_vars


\* ------------------------------------------------------------------ C11
UniqueCodes(s) ==
  \A a, b \in DOMAIN s.customers : s.customers[a].code = s.customers[b].code => a = b

CodeHeldByOther(s, customer_id, code) ==
  \E other \in DOMAIN s.customers \ {customer_id} : s.customers[other].code = code

\* C11: in every state no two customers have the same code; a create, or an
\* update of an existing customer, with a code that a different customer
\* holds is rejected, changes no customers row and appends no audit entry.
C11_UniqueCustomerCode ==
  /\ [](UniqueCodes(db) /\ UniqueCodes(committed))
  /\ [][last'.op = "save_customer" =>
          \/ /\ Failed(last')
             /\ db'.customers = db.customers /\ db'.audit_log = db.audit_log
             /\ committed' = committed
          \/ \A customer_id \in CustomerIds, form \in Forms :
               (/\ customer_id = 0 \/ customer_id \in DOMAIN db.customers
                /\ CodeHeldByOther(db, customer_id, form.code))
               => ~SaveCustomer(customer_id, form)]_vars

\* a logged-in user's save was turned down by the table's constraints, two
\* customers with two codes being in the table, and nothing was written
C11_Witness ==
  /\ last.op = "save_customer" /\ last.outcome = "Error"
  /\ \E c \in DOMAIN db.customers : \E code \in Codes :
       integrity_error(db, c, code, "Active") = "UNIQUE constraint failed: customers.code"
  /\ current_user # None
  /\ Cardinality(DOMAIN db.customers) = 2 /\ db = committed

\* ------------------------------------------------------------------ C12
IsPrefix(a, b) == Len(a) <= Len(b) /\ SubSeq(b, 1, Len(a)) = a

\* C12: the audit log is append-only: every step leaves the entries written
\* so far as they are and in place, in the connection's view and in the
\* file, so the log of an earlier state is a prefix of the log of any later
\* state.
C12_AuditAppendOnly ==
  [][/\ IsPrefix(db.audit_log, db'.audit_log)
     /\ IsPrefix(committed.audit_log, committed'.audit_log)]_vars

\* a customer that has an entry in the log was deleted, and the log still
\* holds the entry of its creation before the entry of its deletion
C12_Witness ==
  /\ last.op = "delete_customer" /\ last.outcome = "Success"
  /\ \E i, j \in DOMAIN committed.audit_log :
       /\ i < j
       /\ committed.audit_log[i].action = "create" /\ committed.audit_log[i].table_name = "customers"
       /\ committed.audit_log[j].action = "delete" /\ committed.audit_log[j].table_name = "customers"
       /\ committed.audit_log[i].record_id = committed.audit_log[j].record_id
       /\ committed.audit_log[i].record_id \notin DOMAIN committed.customers

\* ------------------------------------------------------------------ C13
\* C13: no change of customers or sales orders is committed for an anonymous
\* session: whenever the committed customers or sales orders change, the
\* step is a customer save, customer delete or order status update run by a
\* logged-in user, and the committed change is that handler's own.
C13_NoAnonymousMutation ==
  [][(committed'.customers # committed.customers
      \/ committed'.sales_orders # committed.sales_orders)
     => /\ current_user # None
        /\ last'.op \in Mutating /\ ~Failed(last')
        /\ committed'.customers # committed.customers => db'.customers # db.customers
        /\ committed'.sales_orders # committed.sales_orders => db'.sales_orders # db.sales_orders]_vars


\* ------------------------------------------------------------------ C15
\* the customer exists and is neither On Hold nor Inactive
OrderableCustomer(s, customer_id) ==
  /\ customer_id \in DOMAIN s.customers
  /\ s.customers[customer_id].status \notin {"On Hold", "Inactive"}

\* C15: create_order_for_customer writes an order only for a customer that
\* exists and is neither On Hold nor Inactive, with items that refer to
\* existing products in quantities above 0, and the order it writes is a
\* Draft of that customer; otherwise it writes nothing: no order, no item,
\* no audit entry.
C15_CreateOrderOnlyWhenValid ==
  [][last'.op = "create_order_for_customer" =>
       \/ db' = db /\ committed' = committed
       \/ \A customer_id \in CustomerIds :
            CreateOrderForCustomer(customer_id) =>
              /\ OrderableCustomer(db, customer_id)
              /\ Len(db'.sales_orders) = Len(db.sales_orders) + 1
              /\ db'.sales_orders[Len(db'.sales_orders)].status = "Draft"
              /\ db'.sales_orders[Len(db'.sales_orders)].customer_id = customer_id
              /\ \A i \in DOMAIN db'.sales_order_items :
                   db'.sales_order_items[i].order_id = Len(db'.sales_orders) =>
                     /\ db'.sales_order_items[i].product_id \in DOMAIN db.products
                     /\ db'.sales_order_items[i].quantity > 0]_vars

\* create_order_for_customer ran for a customer of a store whose customers
\* are all there and all On Hold or Inactive, and wrote nothing
C15_Witness ==
  /\ last.op = "create_order_for_customer"
  /\ last.outcome = "AttributeError: 'EnhancedERP' object has no attribute 'show_sales'"
  /\ db.customers_seq > 0
  /\ DOMAIN db.customers = 1..db.customers_seq
  /\ \A c \in DOMAIN db.customers : db.customers[c].status \in {"On Hold", "Inactive"}
  /\ db = HeldStore /\ committed = HeldStore

\* ------------------------------------------------------------------ C16
\* C16: a user creates a customer, creates an order for it and ships the
\* order.  When the shipment is done the store has two more inventory
\* movements, both negative, the stock of the order's two products is lower
\* by the ordered quantities, and the sequence has left exactly three audit
\* entries: create customer, create order, status change.
C16_ShipmentScenario ==
  [][(/\ current_user # None
      /\ last.op = "create_order_for_customer"
      /\ last.outcome # "Please select a customer first"
      /\ Len(committed.audit_log) >= 1
      /\ AuditEntry(current_user.id, "create", "customers", committed.customers_seq,
                    committed.audit_log[Len(committed.audit_log)])
      /\ Succeeded("update_order_status")
      /\ \E order_id \in OrderIds : UpdateOrderStatus(order_id, "Shipped"))
     => LET n == Len(committed.audit_log)
            added == AddedMovements(committed, committed')
        IN /\ Len(added) = 2
           /\ \A i \in DOMAIN added : added[i].quantity < 0
           /\ \A order_id \in OrderIds : UpdateOrderStatus(order_id, "Shipped") =>
                \A p \in DOMAIN committed.products :
                  committed'.products[p].current_stock =
                    committed.products[p].current_stock - OrderedQuantity(committed, order_id, p)
           /\ Len(committed'.audit_log) = n + 2
           /\ committed'.audit_log[n + 1].action = "create"
           /\ committed'.audit_log[n + 1].table_name = "sales_orders"
           /\ committed'.audit_log[n + 2].action = "update"
           /\ committed'.audit_log[n + 2].table_name = "sales_orders"]_vars


\* ------------------------------------------------------------------ C17
\* (current - previous) / previous x 100 in percent, 0 when the previous
\* total is 0
GrowthOf(current, previous) ==
  IF previous # 0 THEN quotient((current - previous) * 100, previous) ELSE quotient(0, 1)

\* C17: the growth the dashboard shows is (current - previous) / previous x
\* 100 when the previous period's total is not 0, and 0 when it is 0, for
\* every pair of totals, negative previous totals included; a previous
\* total of 100 and a current total of 150 give 50.
C17_GrowthPercentage ==
  /\ growth(150, 100) = quotient(50, 1)
  /\ last.op = "load_dashboard_data" =>
       dashboard.growth = GrowthOf(dashboard.sales_total,
                                   prev_sales(db, dash_dates[1], dash_dates[2]))

\* ------------------------------------------------------------------ C18
\* the products that are Active and at or below their minimum stock level
LowStockProducts(s) ==
  {p \in DOMAIN s.products : /\ s.products[p].status = "Active"
                             /\ s.products[p].current_stock <= s.products[p].min_stock_level}

\* C18: the stock alerts of a loaded dashboard list every Active product
\* whose current_stock is at most its min_stock_level, each once, and no
\* other product, in descending order of min_stock_level - current_stock,
\* however many such products there are.
C18_LowStockList ==
  dashboard.loaded =>
    LET rows == dashboard.low_stock IN
    /\ {rows[i].name : i \in DOMAIN rows} = LowStockProducts(db)
    /\ Len(rows) = Cardinality(LowStockProducts(db))
    /\ \A i, j \in DOMAIN rows :
         i < j => rows[i].min_stock_level - rows[i].current_stock
                    >= rows[j].min_stock_level - rows[j].current_stock

\* ------------------------------------------------------------------ C19
\* term occurs in text as it is written, letter case aside
ContainsFolded(text, term) ==
  \E i \in 0..(Len(text) - Len(term)) :
    \A k \in 1..Len(term) : fold(text[i + k]) = fold(term[k])

\* the customers a search for the term with the status filter is to find
Sought(s, search_term, status_filter) ==
  {c \in DOMAIN s.customers :
     /\ \/ search_term = ""
        \/ ContainsFolded(chars(s.customers[c].code), chars(search_term))
        \/ ContainsFolded(chars(s.customers[c].name), chars(search_term))
        \/ ContainsFolded(chars(s.customers[c].contact_person), chars(search_term))
        \/ ContainsFolded(chars(s.customers[c].email), chars(search_term))
     /\ status_filter = "All" \/ s.customers[c].status = status_filter}

\* C19: after load_customers the tree lists exactly the customers whose
\* code, name, contact person or email contains the search term as a literal
\* substring, letter case aside (all customers for an empty term), and whose
\* status is the filter's unless the filter is All, each once, ordered by
\* name; for every term, terms with % or _ included.
C19_FindCustomers ==
  last.op = "load_customers" =>
    /\ {customers_tree[i].id : i \in DOMAIN customers_tree}
         = Sought(db, customer_filter.search_term, customer_filter.status_filter)
    /\ Len(customers_tree)
         = Cardinality(Sought(db, customer_filter.search_term, customer_filter.status_filter))
    /\ \A i, j \in DOMAIN customers_tree :
         i < j => ~text_less(chars(customers_tree[j].name), chars(customers_tree[i].name))

\* ------------------------------------------------------------------ C20
\* C20: a run of load_dashboard_data leaves customers, products, orders,
\* movements, users, permissions and the audit log as they are, in the
\* connection's view and in the file, and opens no transaction; a run that
\* follows a run with the same two dates, nothing having been written in
\* between, shows what the run before it showed.
C20_DashboardReadsOnly ==
  [][last'.op = "load_dashboard_data" =>
       /\ db' = db /\ committed' = committed /\ pending' = pending
       /\ (last.op = "load_dashboard_data" /\ dash_dates' = dash_dates) => dashboard' = dashboard]_vars

\* the dashboard was loaded for a period with sales, and lists stock alerts
C20_Witness ==
  /\ last.op = "load_dashboard_data"
  /\ dashboard.loaded /\ dashboard.sales_total # 0 /\ dashboard.low_stock # <<>>
  /\ db = committed


\* ------------------------------------------------------------------ C21
Modules == {"customers", "products", "sales_orders", "users"}
Capabilities == {"view", "create", "edit", "delete"}

\* the users named admin, and the permission rows of module "all"
Admins(s) == {i \in DOMAIN s.users : s.users[i].username = "admin"}
AllRows(s) == {p \in DOMAIN s.permissions : s.permissions[p].module = "all"}

\* C21: once create_tables has run there is exactly one user named admin and
\* exactly one permission row of module "all", with the four capabilities
\* set and the admin's id as user_id; create_tables run again on that store
\* adds no user and no permission row; and the principal holding that row
\* has every capability on every module.
C21_BootstrapIdempotent ==
  (running \/ last.op = "__init__") =>
    /\ Cardinality(Admins(committed)) = 1
    /\ Cardinality(AllRows(committed)) = 1
    /\ \A p \in AllRows(committed) :
         /\ committed.permissions[p].user_id \in Admins(committed)
         /\ committed.permissions[p].can_view = 1 /\ committed.permissions[p].can_create = 1
         /\ committed.permissions[p].can_edit = 1 /\ committed.permissions[p].can_delete = 1
         /\ \A module \in Modules, capability \in Capabilities :
              authorize(load_permissions(committed, committed.permissions[p].user_id),
                        module, capability)
    /\ create_tables(committed).users = committed.users
    /\ create_tables(committed).permissions = committed.permissions

\* __init__ was run on a file that earlier runs left, with its audit entries
C21_Witness ==
  /\ ~running /\ last.op = "__init__"
  /\ Len(db.users) = 1 /\ Len(db.permissions) = 1
  /\ db.audit_log # <<>>


\* ------------------------------------------------------------------ C22
\* the place of a status in Draft < Confirmed < Shipped < Completed
StatusRank(status) ==
  CASE status = "Draft" -> 1 [] status = "Confirmed" -> 2
    [] status = "Shipped" -> 3 [] status = "Completed" -> 4

\* C22: when orders are changed only by the buttons of order-details
\* windows, whatever windows are open on an order and whatever buttons are
\* clicked in whatever order, no order's status moves backward in
\* Draft < Confirmed < Shipped < Completed.
C22_StatusNeverMovesBackward ==
  [][\A o \in DOMAIN db.sales_orders :
       StatusRank(db'.sales_orders[o].status) >= StatusRank(db.sales_orders[o].status)]_vars


\* ------------------------------------------------------------------ C23
\* C23: an audit entry with action update or delete is appended only for a
\* row that existed when the operation ran: save_customer and
\* delete_customer with the id of a customer that is no longer there, and
\* update_order_status with an id no order has, report no success and
\* append no entry.
C23_AuditOnlyForExistingRows ==
  [][(/\ Len(db'.audit_log) > Len(db.audit_log)
      /\ db'.audit_log[Len(db'.audit_log)].action \in {"update", "delete"})
     => LET e == db'.audit_log[Len(db'.audit_log)] IN
        /\ e.table_name = "customers" => e.record_id \in DOMAIN db.customers
        /\ e.table_name = "sales_orders" => e.record_id \in DOMAIN db.sales_orders]_vars


\* ------------------------------------------------------------------ C24
\* the login and logout entries of an audit log, in the order written
SessionEntries(log) == SelectSeq(log, LAMBDA e : e.action \in {"login", "logout"})

\* C24: the login and logout entries of the audit log alternate, the first
\* being a login: no two logins without a logout between them, no logout
\* without an open login before it, and each logout carries the user_id of
\* the login it closes.
C24_LoginLogoutAlternate ==
  \A log \in {db.audit_log, committed.audit_log} :
    LET entries == SessionEntries(log) IN
    \A i \in DOMAIN entries :
      IF i % 2 = 1 THEN entries[i].action = "login"
      ELSE /\ entries[i].action = "logout"
           /\ entries[i].user_id = entries[i - 1].user_id


\* ------------------------------------------------------------------ C25
\* C25: every audit entry carries the id of the user of the session in which
\* it was written, a login entry the id of the user who has just logged in;
\* no entry has no actor, and none has the id of a user who had logged out.
C25_EntriesNameTheActor ==
  /\ [](\A i \in DOMAIN db.audit_log : db.audit_log[i].user_id \in DOMAIN db.users)
  /\ [][\A i \in (Len(db.audit_log) + 1)..Len(db'.audit_log) :
          LET e == db'.audit_log[i] IN
          IF e.action = "login"
          THEN current_user = None /\ current_user' # None /\ e.user_id = current_user'.id
          ELSE current_user # None /\ e.user_id = current_user.id]_vars

\* the second user of the store is logged in and has changed an order
C25_Witness ==
  /\ last.op = "update_order_status" /\ last.outcome = "Success"
  /\ current_user.id = 2
  /\ db.audit_log[Len(db.audit_log)].action = "update"
  /\ db.audit_log[Len(db.audit_log)].user_id = 2


\* ------------------------------------------------------------------ C26
\* the capability map has an entry for exactly the modules user_id has
\* permission rows for, each entry with the capabilities of such a row
MapOfUser(perms, s, user_id) ==
  /\ \A m \in DOMAIN perms :
       \E p \in DOMAIN s.permissions :
         /\ s.permissions[p].user_id = user_id /\ s.permissions[p].module = m
         /\ perms[m].view = (s.permissions[p].can_view # 0)
         /\ perms[m].create = (s.permissions[p].can_create # 0)
         /\ perms[m].edit = (s.permissions[p].can_edit # 0)
         /\ perms[m].delete = (s.permissions[p].can_delete # 0)
  /\ \A p \in DOMAIN s.permissions :
       s.permissions[p].user_id = user_id => s.permissions[p].module \in DOMAIN perms

\* C26: the capability map in memory is the current principal's: it is empty
\* while nobody is logged in, and while a user is logged in it holds that
\* user's permission rows and nothing else, in particular no entry of a
\* user who was logged in before.
C26_CapabilityMapOfCurrentUser ==
  IF current_user = None
  THEN user_permissions = NoPermissions
  ELSE MapOfUser(user_permissions, db, current_user.id)

\* the admin has logged out and the user with the view-only row is logged in
C26_Witness ==
  /\ current_user.id = 2
  /\ DOMAIN user_permissions = {"customers"}
  /\ \E i \in DOMAIN db.audit_log :
       db.audit_log[i].action = "logout" /\ db.audit_log[i].user_id = 1


\* ------------------------------------------------------------------ C27
\* the customers whose row differs between stores s and t
ChangedCustomers(s, t) ==
  {c \in DOMAIN s.customers \cap DOMAIN t.customers : t.customers[c] # s.customers[c]}

\* C27: save_customer removes no customer and leaves products, orders and
\* order items as they are; an update changes the row of one customer at
\* most, and leaves that row's id, created_at and created_by as they were; a
\* create changes no row that was there.
C27_SaveCustomerFrame ==
  [][last'.op = "save_customer" =>
       /\ db'.products = db.products
       /\ db'.sales_orders = db.sales_orders
       /\ db'.sales_order_items = db.sales_order_items
       /\ DOMAIN db.customers \subseteq DOMAIN db'.customers
       /\ Cardinality(ChangedCustomers(db, db')) <= 1
       /\ \A c \in ChangedCustomers(db, db') :
            /\ db'.customers[c].created_at = db.customers[c].created_at
            /\ db'.customers[c].created_by = db.customers[c].created_by
       /\ DOMAIN db'.customers # DOMAIN db.customers => ChangedCustomers(db, db') = {}]_vars

\* the first of two customers was updated after it was created
C27_Witness ==
  /\ last.op = "save_customer" /\ last.outcome = "Success"
  /\ db.audit_log[Len(db.audit_log)].action = "update"
  /\ db.audit_log[Len(db.audit_log)].record_id = 1
  /\ Cardinality(DOMAIN db.customers) = 2
  /\ db.customers[1].updated_at # db.customers[1].created_at


\* ------------------------------------------------------------------ C28
\* C28: update_order_status(order_id, new_status) changes nothing of the
\* orders but the status and updated_at of order order_id: that order's
\* customer, date and total, its items, and every other order are as they
\* were.
C28_UpdateOrderStatusFrame ==
  [][last'.op = "update_order_status" =>
       \A order_id \in OrderIds, new_status \in NewStatuses :
         UpdateOrderStatus(order_id, new_status) =>
           /\ DOMAIN db'.sales_orders = DOMAIN db.sales_orders
           /\ db'.sales_order_items = db.sales_order_items
           /\ \A o \in DOMAIN db.sales_orders :
                IF o = order_id
                THEN [db'.sales_orders[o] EXCEPT !.status = db.sales_orders[o].status,
                                                 !.updated_at = db.sales_orders[o].updated_at]
                       = db.sales_orders[o]
                ELSE db'.sales_orders[o] = db.sales_orders[o]]_vars

\* the status of the first order was changed, and its time of update with it
C28_Witness ==
  /\ last.op = "update_order_status" /\ last.outcome = "Success"
  /\ db.sales_orders[1].status = "Completed"
  /\ db.sales_orders[1].updated_at # 0
  /\ db.sales_orders[1].total_amount = 150
  /\ db.sales_orders[2].status = "Shipped"


\* ------------------------------------------------------------------ C29
\* C29: for a date range [start, end] with start <= end, the previous period
\* the dashboard compares with ends the day before start, has no day in
\* common with [start, end] and has as many days as [start, end]; the growth
\* shown is the growth against the orders of those days.
C29_PreviousPeriod ==
  (last.op = "load_dashboard_data" /\ dash_dates[1] <= dash_dates[2]) =>
    LET start == dash_dates[1]
        end == dash_dates[2]
        previous == prev_period(start, end)
    IN /\ previous[2] = start - 1
       /\ \A day \in previous[1]..previous[2] : day < start
       /\ previous[2] - previous[1] + 1 = end - start + 1
       /\ dashboard.growth = growth(dashboard.sales_total,
                                    period_total(db, start - (end - start + 1), start - 1))


\* ------------------------------------------------------------------ C30
\* the step changed nothing of the session, the store, the file and the
\* windows, and the program is running
NothingDone ==
  /\ running /\ running'
  /\ UNCHANGED <<db, committed, pending, current_user, user_permissions, login_dialog, screen>>

\* C30: answering no to the prompt of logout, of on_closing or of
\* delete_customer changes nothing: current_user, the capability map, every
\* table and the audit log are as before, and the program keeps running.
C30_DecliningChangesNothing ==
  [][/\ last'.op = "logout" => (Logout(FALSE) => NothingDone)
     /\ last'.op = "on_closing" => (OnClosing(FALSE) => NothingDone)
     /\ last'.op = "delete_customer" =>
          \A customer_id \in CustomerIds : DeleteCustomer(customer_id, FALSE) => NothingDone]_vars

\* a logged-in user was asked whether to delete a customer that could be
\* deleted, and said no
C30_Witness ==
  /\ last.op = "delete_customer" /\ last.outcome = "Declined"
  /\ current_user # None
  /\ \E c \in DOMAIN db.customers : order_count(db, c) = 0

====
